---- MODULE Spec2Model ----
(***************************************************************************)
(* Notes App: the REST backend (server.js) over the notes table            *)
(* (init.sql).                                                             *)
(*                                                                         *)
(* Spec serves one request at a time: every action is one HTTP handler run *)
(* from the request to the response, its storage statement included.       *)
(* Texts are sequences of one-character strings.  Titles stay within the   *)
(* 255 characters of the title column (data model: "practical cap ~255     *)
(* characters"); an unreachable storage engine is not modelled.            *)
(***************************************************************************)
EXTENDS Integers, Sequences, FiniteSets, TLC

\* Highest id the notes_id_seq sequence hands out in the model.
MaxId == 2

\* Highest value of the storage engine's clock in the model.
MaxTime == 3

(***************************************************************************)
(* JSON values of a request body field, and SQL values of a column.        *)
(***************************************************************************)
\* A field that the body does not have: `const { title, content } = req.body`.
Undefined == [kind |-> "undefined", str |-> <<>>]

\* A field that is JSON null; also SQL NULL.
Null == [kind |-> "null", str |-> <<>>]

\* A JSON string / SQL text.
Str(s) == [kind |-> "string", str |-> s]

\* String.prototype.trim on a text: drop leading and trailing whitespace.
RECURSIVE TrimLeft(_)
TrimLeft(s) == IF s # <<>> /\ Head(s) = " " THEN TrimLeft(Tail(s)) ELSE s

RECURSIVE TrimRight(_)
TrimRight(s) ==
    IF s # <<>> /\ s[Len(s)] = " " THEN TrimRight(SubSeq(s, 1, Len(s) - 1)) ELSE s

Trim(s) == TrimRight(TrimLeft(s))

\* Fault: the field is trimmed before the emptiness test.
Truthy_Trimmed(v) == v.kind = "string" /\ Trim(v.str) # <<>>

\* JavaScript truthiness of a body field: `!title` is true for undefined,
\* null and the empty string, false for every other string.
Truthy(v) == v.kind = "string" /\ v.str # <<>>

\* A request body { title, content }.
Body(title, content) == [title |-> title, content |-> content]

\* The bodies a client may send with POST and PUT: three that pass the
\* handlers' validation (one with a whitespace-only title, one with a
\* whitespace-only content), and five with an empty, null or missing field.
Bodies ==
    {Body(Str(<<"a">>), Str(<<"x">>)),
     Body(Str(<<" ">>), Str(<<"x">>)),
     Body(Str(<<"a">>), Str(<<" ">>)),
     Body(Str(<<>>), Str(<<"x">>)),
     Body(Str(<<"a">>), Str(<<>>)),
     Body(Str(<<>>), Str(<<>>)),
     Body(Undefined, Str(<<"x">>)),
     Body(Str(<<"a">>), Null)}

\* The ids a client may put in the URL.
IdInputs == 1..MaxId

(***************************************************************************)
(* State.                                                                  *)
(***************************************************************************)
VARIABLES
    notes,          \* the rows of table notes
    notes_id_seq,   \* next value of the SERIAL sequence behind notes.id
    now,            \* CURRENT_TIMESTAMP of the storage engine
    assigned,       \* ids returned by the successful creates, in order
    deleted,        \* ids of the notes removed by the successful deletes
    writes,         \* the successful creates and updates, in order
    last,           \* the last request served, with its response
    during          \* whether a send awaited the transport when last was served
                    \* (these five record the requests sent to the server
                    \* directly; cev records those of the page)

VARIABLES
    env,            \* process.env: GMAIL_USER and GMAIL_APP_PASSWORD
    transporter,    \* emailConfig.js: the transport handle, 0 for null
    userEmail,      \* emailConfig.js: the cached sender address
    created,        \* calls of nodemailer.createTransport so far
    pending,        \* handles of the sendMail calls not settled yet, in order
    mlast,          \* the last mail request served or settled
    answer          \* what the transport answered in the step before, if it did

VARIABLES
    flying,         \* the update requests whose statement storage has not run yet
    applied         \* per note, the update statement storage ran last for it

noteVars == <<notes, notes_id_seq, now, assigned, deleted, writes, last, during>>

mailVars == <<env, transporter, userEmail, created, pending, mlast, answer>>

VARIABLES
    client,         \* the page: currentNoteId, notes and the elements' values
    tasks,          \* the fetches of the page that await their response
    cev,            \* what the handler that ran last on the page did
    clicks          \* how many times the user has clicked on the page

raceVars == <<flying, applied>>

clientVars == <<client, tasks, cev, clicks>>

vars == <<noteVars, mailVars, raceVars, clientVars>>

\* What the note routes served one at a time leave alone, what the mail
\* routes leave alone, and what the note routes served concurrently do.
exceptNotes == <<mailVars, raceVars, clientVars>>

exceptMail == <<noteVars, raceVars, clientVars>>

exceptRace == <<mailVars, clientVars>>

\* What a handler of the page leaves alone while it runs.
exceptClient == <<noteVars, mailVars, raceVars>>

\* JSON of "no note" in a response that carries none.
NoNote ==
    [id |-> 0, title |-> Null, content |-> Null, created_at |-> 0, updated_at |-> 0]

\* A request and the response the handler gave to it.  queried tells whether
\* the handler called pool.query.
Exchange(method, id, title, content, queried, status, note, rows, msg) ==
    [method |-> method, id |-> id, title |-> title, content |-> content,
     queried |-> queried, status |-> status, note |-> note, rows |-> rows,
     msg |-> msg]

\* A successful create or update of note id, as writes records it.
Written(method, id) == [method |-> method, id |-> id]

NoExchange == Exchange("NONE", 0, Undefined, Undefined, FALSE, 0, NoNote, <<>>, "")

(***************************************************************************)
(* Storage: the statements the handlers send, run against table notes.     *)
(* A statement's result is [ok, table, seq, rows]: whether it ran, the     *)
(* table and sequence after it, and the rows it returns.                   *)
(***************************************************************************)
\* Fault: the trigger stamps the wrong column.
update_updated_at_column_CreatedAt(new_row, t) ==
    [new_row EXCEPT !.created_at = t]

\* Fault: the trigger is not installed; the row is written as the SET
\* clause leaves it.
update_updated_at_column_Absent(new_row, t) == new_row

\* Trigger function: NEW.updated_at = CURRENT_TIMESTAMP.
update_updated_at_column(new_row, t) == [new_row EXCEPT !.updated_at = t]

\* NOT NULL on title and content (pg sends undefined as NULL).
NotNull(v) == v.kind = "string"

\* nextval of the SERIAL sequence: the value handed out, and the next one.
Nextval(seq) == [val |-> seq, next |-> seq + 1]

\* Fault: the two parameters are bound in the wrong order.
InsertNote_ParamsSwapped(tbl, seq, t, title, content) ==
    IF NotNull(title) /\ NotNull(content)
    THEN LET nv  == Nextval(seq)
             row == [id |-> nv.val, title |-> content, content |-> title,
                     created_at |-> t, updated_at |-> t]
         IN  [ok |-> TRUE, table |-> tbl \cup {row}, seq |-> nv.next,
              rows |-> {row}]
    ELSE [ok |-> FALSE, table |-> tbl, seq |-> seq, rows |-> {}]

\* Fault: updated_at defaults to the epoch instead of CURRENT_TIMESTAMP.
InsertNote_EpochUpdated(tbl, seq, t, title, content) ==
    IF NotNull(title) /\ NotNull(content)
    THEN LET nv  == Nextval(seq)
             row == [id |-> nv.val, title |-> title, content |-> content,
                     created_at |-> t, updated_at |-> 0]
         IN  [ok |-> TRUE, table |-> tbl \cup {row}, seq |-> nv.next,
              rows |-> {row}]
    ELSE [ok |-> FALSE, table |-> tbl, seq |-> seq, rows |-> {}]

\* Fault: the id is one more than the largest stored id, not a sequence value.
InsertNote_MaxIdPlusOne(tbl, seq, t, title, content) ==
    IF NotNull(title) /\ NotNull(content)
    THEN LET ids == {n.id : n \in tbl}
             top == IF ids = {} THEN 0
                    ELSE CHOOSE i \in ids : \A k \in ids : k <= i
             row == [id |-> top + 1, title |-> title, content |-> content,
                     created_at |-> t, updated_at |-> t]
         IN  [ok |-> TRUE, table |-> tbl \cup {row}, seq |-> seq + 1,
              rows |-> {row}]
    ELSE [ok |-> FALSE, table |-> tbl, seq |-> seq, rows |-> {}]

\* INSERT INTO notes (title, content) VALUES ($1, $2) RETURNING *
\* id, created_at and updated_at take their column defaults.
InsertNote(tbl, seq, t, title, content) ==
    IF NotNull(title) /\ NotNull(content)
    THEN LET nv  == Nextval(seq)
             row == [id |-> nv.val, title |-> title, content |-> content,
                     created_at |-> t, updated_at |-> t]
         IN  [ok |-> TRUE, table |-> tbl \cup {row}, seq |-> nv.next,
              rows |-> {row}]
    ELSE [ok |-> FALSE, table |-> tbl, seq |-> seq, rows |-> {}]

\* Fault: the statement inserts the row when no row has the id (an upsert).
UpdateNote_Upsert(tbl, seq, t, title, content, id) ==
    LET hit    == {n \in tbl : n.id = id}
        new(n) == update_updated_at_column(
                      [n EXCEPT !.title = title, !.content = content], t)
        row    == [id |-> id, title |-> title, content |-> content,
                   created_at |-> t, updated_at |-> t]
    IN  IF ~(NotNull(title) /\ NotNull(content))
        THEN [ok |-> FALSE, table |-> tbl, seq |-> seq, rows |-> {}]
        ELSE IF hit = {}
        THEN [ok |-> TRUE, table |-> tbl \cup {row}, seq |-> seq,
              rows |-> {row}]
        ELSE [ok |-> TRUE, table |-> (tbl \ hit) \cup {new(n) : n \in hit},
              seq |-> seq, rows |-> {new(n) : n \in hit}]

\* Fault: the statement has no WHERE clause; it returns the row asked for.
UpdateNote_NoWhere(tbl, seq, t, title, content, id) ==
    LET new(n) == update_updated_at_column(
                      [n EXCEPT !.title = title, !.content = content], t)
    IN  IF tbl # {} /\ ~(NotNull(title) /\ NotNull(content))
        THEN [ok |-> FALSE, table |-> tbl, seq |-> seq, rows |-> {}]
        ELSE [ok |-> TRUE, table |-> {new(n) : n \in tbl}, seq |-> seq,
              rows |-> {new(n) : n \in {k \in tbl : k.id = id}}]

\* Fault: the statement sets the title and leaves the content as it is.
UpdateNote_TitleOnly(tbl, seq, t, title, content, id) ==
    LET hit    == {n \in tbl : n.id = id}
        new(n) == update_updated_at_column([n EXCEPT !.title = title], t)
    IN  IF hit # {} /\ ~(NotNull(title) /\ NotNull(content))
        THEN [ok |-> FALSE, table |-> tbl, seq |-> seq, rows |-> {}]
        ELSE [ok |-> TRUE, table |-> (tbl \ hit) \cup {new(n) : n \in hit},
              seq |-> seq, rows |-> {new(n) : n \in hit}]

\* UPDATE notes SET title = $1, content = $2 WHERE id = $3 RETURNING *
\* with trigger update_notes_updated_at BEFORE UPDATE FOR EACH ROW.
UpdateNote(tbl, seq, t, title, content, id) ==
    LET hit    == {n \in tbl : n.id = id}
        new(n) == update_updated_at_column(
                      [n EXCEPT !.title = title, !.content = content], t)
    IN  IF hit # {} /\ ~(NotNull(title) /\ NotNull(content))
        THEN [ok |-> FALSE, table |-> tbl, seq |-> seq, rows |-> {}]
        ELSE [ok |-> TRUE, table |-> (tbl \ hit) \cup {new(n) : n \in hit},
              seq |-> seq, rows |-> {new(n) : n \in hit}]

\* Fault: the statement marks the row and leaves it in the table, where
\* the SELECTs still find it.
DeleteNote_KeepsRow(tbl, seq, id) ==
    LET hit == {n \in tbl : n.id = id}
    IN  [ok |-> TRUE, table |-> tbl, seq |-> seq, rows |-> hit]

\* Fault: the statement has no WHERE clause; it returns the row asked for.
DeleteNote_NoWhere(tbl, seq, id) ==
    LET hit == {n \in tbl : n.id = id}
    IN  [ok |-> TRUE, table |-> IF hit = {} THEN tbl ELSE {}, seq |-> seq,
         rows |-> hit]

\* DELETE FROM notes WHERE id = $1 RETURNING *
DeleteNote(tbl, seq, id) ==
    LET hit == {n \in tbl : n.id = id}
    IN  [ok |-> TRUE, table |-> tbl \ hit, seq |-> seq, rows |-> hit]

\* SELECT * FROM notes WHERE id = $1
SelectNote(tbl, id) == {n \in tbl : n.id = id}

\* Fault: ORDER BY created_at DESC, the column the index is on.
SelectNotes_ByCreatedAt(tbl) ==
    LET n == Cardinality(tbl)
    IN  {s \in [1..n -> tbl] :
            /\ \A i, j \in 1..n : i # j => s[i] # s[j]
            /\ \A i, j \in 1..n : i < j => s[i].created_at >= s[j].created_at}

\* SELECT * FROM notes ORDER BY updated_at DESC: every order of the rows
\* that the ORDER BY allows (rows with equal updated_at come in any order).
SelectNotes(tbl) ==
    LET n == Cardinality(tbl)
    IN  {s \in [1..n -> tbl] :
            /\ \A i, j \in 1..n : i # j => s[i] # s[j]
            /\ \A i, j \in 1..n : i < j => s[i].updated_at >= s[j].updated_at}

\* rows[0] of a statement's result.
FirstRow(rows) == CHOOSE n \in rows : TRUE

(***************************************************************************)
(* Mail relay: emailConfig.js and the two mail routes of server.js.        *)
(***************************************************************************)
\* Longest content of a send request, in characters.
MaxLen == 2

\* Most sendMail calls awaiting the transport at one time.
MaxSends == 2

\* Strings over alphabet of length n at most.
RECURSIVE StringsUpTo(_, _)
StringsUpTo(alphabet, n) ==
    IF n = 0
    THEN {<<>>}
    ELSE LET shorter == StringsUpTo(alphabet, n - 1)
         IN  shorter \cup {<<c>> \o s : c \in alphabet, s \in shorter}

\* What a variable of the environment may hold: unset, empty, or a value.
EnvValues == {Undefined, Str(<<>>), Str(<<"u">>)}

Envs == [GMAIL_USER : EnvValues, GMAIL_APP_PASSWORD : EnvValues]

\* The recipients, subjects and contents a send request may carry.
ToInputs ==
    {Undefined, Str(<<>>), Str(<<"n">>), Str(<<"a", "@", "b">>),
     Str(<<"a", "@", "b", ".", "c">>)}

SubjectInputs == {Str(<<>>), Str(<<"s">>)}

ContentInputs == {Undefined} \cup {Str(s) : s \in StringsUpTo({"a", "\n"}, MaxLen)}

\* What the transport answers: a message id, or the message of its error.
MessageIds == {"<1@mail>"}

TransportErrors == {"Invalid login", "connect ECONNREFUSED"}

\* The characters \s of a regular expression matches, as far as inputs go.
Whitespace == {" ", "\n"}

\* /^[^\s@]+@[^\s@]+\.[^\s@]+$/.test(s)
EmailRegex(s) ==
    \E i, j \in 1..Len(s) :
        /\ s[i] = "@"
        /\ s[j] = "."
        /\ 1 < i
        /\ i + 1 < j
        /\ j < Len(s)
        /\ \A k \in 1..Len(s) :
               /\ s[k] \notin Whitespace
               /\ k # i => s[k] # "@"

\* The state of module emailConfig.js.
Module(t, u, c) == [transporter |-> t, userEmail |-> u, created |-> c]

\* content.replace(/\n/g, '<br>').  The second is replace('\n', '<br>'),
\* which replaces the first newline only.
RECURSIVE ReplaceNewlines_First(_)
ReplaceNewlines_First(s) ==
    IF s = <<>>
    THEN <<>>
    ELSE IF Head(s) = "\n"
         THEN <<"<br>">> \o Tail(s)
         ELSE <<Head(s)>> \o ReplaceNewlines_First(Tail(s))

RECURSIVE ReplaceNewlines(_)
ReplaceNewlines(s) ==
    IF s = <<>>
    THEN <<>>
    ELSE <<IF Head(s) = "\n" THEN "<br>" ELSE Head(s)>>
             \o ReplaceNewlines(Tail(s))

\* The three pieces of the html template around ${subject} and ${content},
\* one element per tag, with the line breaks of the template between them.
HtmlHead == <<"<div>", "\n", "<h2>">>

HtmlMid == <<"</h2>", "\n", "<div>", "\n">>

HtmlTail ==
    <<"\n", "</div>", "\n", "<hr>", "\n", "<p>Sent from Notes App</p>", "\n",
      "</div>">>

\* mailOptions of sendEmail.
MailOptions(from, to, subject, content) ==
    [from |-> from, to |-> to, subject |-> subject, text |-> content,
     html |-> HtmlHead \o subject.str \o HtmlMid
                  \o ReplaceNewlines(content.str) \o HtmlTail]

NoMail ==
    [from |-> Null, to |-> Undefined, subject |-> Undefined,
     text |-> Undefined, html |-> <<>>]

\* initializeTransporter(): threw tells whether it threw.
initializeTransporter(e, mod) ==
    IF ~Truthy(e.GMAIL_USER) \/ ~Truthy(e.GMAIL_APP_PASSWORD)
    THEN [threw |-> TRUE,
          error |-> "Gmail credentials not configured. Please set GMAIL_USER and GMAIL_APP_PASSWORD in .env file",
          mod |-> mod]
    ELSE [threw |-> FALSE,
          error |-> "",
          mod |-> Module(mod.created + 1, e.GMAIL_USER, mod.created + 1)]

\* sendEmail(to, subject, content) up to its await: either it threw, or it
\* called transporter.sendMail(mail) on handle and waits for the transport.
\* The first of the two creates a transport on every call.
sendEmail_AlwaysInit(e, mod, to, subject, content) ==
    LET init == initializeTransporter(e, mod)
    IN  IF init.threw
        THEN [threw |-> TRUE, error |-> init.error, mod |-> init.mod,
              handle |-> 0, mail |-> NoMail]
        ELSE [threw |-> FALSE, error |-> "", mod |-> init.mod,
              handle |-> init.mod.transporter,
              mail |-> MailOptions(init.mod.userEmail, to, subject, content)]

sendEmail(e, mod, to, subject, content) ==
    LET init == IF mod.transporter = 0
                THEN initializeTransporter(e, mod)
                ELSE [threw |-> FALSE, error |-> "", mod |-> mod]
    IN  IF init.threw
        THEN [threw |-> TRUE, error |-> init.error, mod |-> init.mod,
              handle |-> 0, mail |-> NoMail]
        ELSE [threw |-> FALSE, error |-> "", mod |-> init.mod,
              handle |-> init.mod.transporter,
              mail |-> MailOptions(init.mod.userEmail, to, subject, content)]

\* isConfigured(): its result and the module state it leaves.  The first
\* of the two answers from the cached transport when there is one.
isConfigured_Cached(e, mod) ==
    [ret |-> \/ mod.transporter # 0
             \/ Truthy(e.GMAIL_USER) /\ Truthy(e.GMAIL_APP_PASSWORD),
     mod |-> mod]

isConfigured(e, mod) ==
    [ret |-> Truthy(e.GMAIL_USER) /\ Truthy(e.GMAIL_APP_PASSWORD),
     mod |-> mod]

\* getUserEmail(): its result and the module state it leaves.  The first of
\* the two sets the transport up to answer from the cached address.
getUserEmail_Init(e, mod) ==
    LET init == IF mod.transporter = 0
                THEN initializeTransporter(e, mod)
                ELSE [threw |-> FALSE, error |-> "", mod |-> mod]
    IN  [ret |-> IF Truthy(e.GMAIL_USER) THEN e.GMAIL_USER ELSE Null,
         mod |-> init.mod]

getUserEmail(e, mod) ==
    [ret |-> IF Truthy(e.GMAIL_USER) THEN e.GMAIL_USER ELSE Null,
     mod |-> mod]

\* The JSON bodies of the mail routes' responses.  error is the message in
\* pieces, as the handler concatenates it.
NoBody ==
    [configured |-> FALSE, email |-> Null, success |-> FALSE,
     messageId |-> "", error |-> <<>>]

StatusBody(configured, email) ==
    [NoBody EXCEPT !.configured = configured, !.email = email]

SuccessBody(messageId) ==
    [NoBody EXCEPT !.success = TRUE, !.messageId = messageId]

ErrorBody(error) == [NoBody EXCEPT !.error = error]

\* A mail request and the response the handler gave to it.  status 0 says
\* the handler awaits the transport; called tells whether the handler had
\* sendMail called, on which handle and with which mail.
MailExchange(route, to, subject, content, status, body, called, handle, mail) ==
    [route |-> route, to |-> to, subject |-> subject, content |-> content,
     status |-> status, body |-> body, called |-> called, handle |-> handle,
     mail |-> mail]

NoMailExchange ==
    MailExchange("NONE", Undefined, Undefined, Undefined, 0, NoBody, FALSE, 0,
                 NoMail)

\* app.get('/api/email/status')
EmailStatusRoute(e, mod) ==
    LET configured == isConfigured(e, mod)
        email == getUserEmail(e, configured.mod)
    IN  [resp |-> MailExchange("STATUS", Undefined, Undefined, Undefined, 200,
                               StatusBody(configured.ret, email.ret),
                               FALSE, 0, NoMail),
         mod |-> email.mod]

\* app.post('/api/email/send') up to the await of sendEmail.  The first of
\* the two leaves the credential check to sendEmail.
EmailSendRoute_NoConfiguredCheck(e, mod, to, subject, content) ==
    IF ~Truthy(to) \/ ~Truthy(subject) \/ ~Truthy(content)
    THEN [resp |-> MailExchange("SEND", to, subject, content, 400,
                                ErrorBody(<<"Recipient, subject, and content are required">>),
                                FALSE, 0, NoMail),
          mod |-> mod]
    ELSE IF ~EmailRegex(to.str)
    THEN [resp |-> MailExchange("SEND", to, subject, content, 400,
                                ErrorBody(<<"Invalid email address">>),
                                FALSE, 0, NoMail),
          mod |-> mod]
    ELSE LET out == sendEmail(e, mod, to, subject, content)
         IN  IF out.threw
             THEN [resp |-> MailExchange("SEND", to, subject, content, 500,
                                         ErrorBody(<<"Failed to send email: ", out.error>>),
                                         FALSE, 0, NoMail),
                   mod |-> out.mod]
             ELSE [resp |-> MailExchange("SEND", to, subject, content, 0,
                                         NoBody, TRUE, out.handle, out.mail),
                   mod |-> out.mod]

EmailSendRoute(e, mod, to, subject, content) ==
    IF ~Truthy(to) \/ ~Truthy(subject) \/ ~Truthy(content)
    THEN [resp |-> MailExchange("SEND", to, subject, content, 400,
                                ErrorBody(<<"Recipient, subject, and content are required">>),
                                FALSE, 0, NoMail),
          mod |-> mod]
    ELSE LET configured == isConfigured(e, mod)
         IN  IF ~configured.ret
             THEN [resp |-> MailExchange("SEND", to, subject, content, 500,
                                         ErrorBody(<<"Email not configured. Please set GMAIL_USER and GMAIL_APP_PASSWORD in .env file.">>),
                                         FALSE, 0, NoMail),
                   mod |-> configured.mod]
             ELSE IF ~EmailRegex(to.str)
             THEN [resp |-> MailExchange("SEND", to, subject, content, 400,
                                         ErrorBody(<<"Invalid email address">>),
                                         FALSE, 0, NoMail),
                   mod |-> configured.mod]
             ELSE LET out == sendEmail(e, configured.mod, to, subject, content)
                  IN  IF out.threw
                      THEN [resp |-> MailExchange("SEND", to, subject, content, 500,
                                                  ErrorBody(<<"Failed to send email: ", out.error>>),
                                                  FALSE, 0, NoMail),
                            mod |-> out.mod]
                      ELSE [resp |-> MailExchange("SEND", to, subject, content, 0,
                                                  NoBody, TRUE, out.handle, out.mail),
                            mod |-> out.mod]

\* app.post('/api/email/send') after the await: sendMail on handle resolved
\* with messageId, or rejected with an error of message error.
EmailSendResolved(handle, messageId) ==
    MailExchange("SEND", Undefined, Undefined, Undefined, 200,
                 SuccessBody(messageId), TRUE, handle, NoMail)

EmailSendRejected(handle, error) ==
    MailExchange("SEND", Undefined, Undefined, Undefined, 500,
                 ErrorBody(<<"Failed to send email: ", error>>), TRUE, handle,
                 NoMail)

\* What the transport did with a sendMail call: it resolved with a message
\* id, or rejected with an error of that message.
Answer(kind, value) == [kind |-> kind, value |-> value]

NoAnswer == Answer("none", "")

\* sendEmail(to, subject, content) after its await: it returns success and
\* the message id, or rethrows the transport's error.  The first of the two
\* catches the error and returns.
sendEmailAwaited_Swallowed(a) ==
    [threw |-> FALSE, error |-> "",
     messageId |-> IF a.kind = "resolved" THEN a.value ELSE ""]

sendEmailAwaited(a) ==
    IF a.kind = "resolved"
    THEN [threw |-> FALSE, error |-> "", messageId |-> a.value]
    ELSE [threw |-> TRUE, error |-> a.value, messageId |-> ""]

\* app.post('/api/email/send') after its await of sendEmail, which took
\* handle and came back with out.
EmailSendAwaited(handle, out) ==
    IF out.threw
    THEN EmailSendRejected(handle, out.error)
    ELSE EmailSendResolved(handle, out.messageId)

\* Module emailConfig.js when loaded, and no mail request served yet.
MailModuleInit ==
    /\ answer = NoAnswer
    /\ transporter = 0
    /\ userEmail = Null
    /\ created = 0
    /\ pending = <<>>
    /\ mlast = NoMailExchange

(***************************************************************************)
(* Handlers.                                                               *)
(***************************************************************************)
(***************************************************************************)
(* The client: public/app.js.  Its async handlers run up to an await, and  *)
(* the rest runs when the response is there; the user may act in between.  *)
(* The save, delete, cancel and email buttons sit in the editor, and the   *)
(* send button in the email modal: they take clicks while that is shown.   *)
(***************************************************************************)
\* Most fetches of the client awaiting their response at one time, and
\* most clicks of the user on the page.
MaxTasks == 2

MaxClicks == 3

\* currentNoteId when it is null, and when it is undefined (the id of a
\* JSON body that carries none).
NoId == 0

UndefinedId == 0 - 1

\* What the user types into the title and the content of the editor.
DraftInputs ==
    {Body(<<" ", "a">>, <<"x">>), Body(<<" ">>, <<"y">>)}

\* The state of the page: the two globals and the values of the elements.
\* notes holds the ids of the rows the list shows, in their order.
ClientInit ==
    [currentNoteId |-> NoId, notes |-> <<>>, editor |-> FALSE,
     noteTitle |-> <<>>, noteContent |-> <<>>,
     modal |-> FALSE, emailTo |-> <<>>, emailSubject |-> <<>>,
     emailPreview |-> <<>>, sendDisabled |-> FALSE]

\* A fetch awaiting its response, and the handler that resumes with it.
\* after names the handler that awaits loadNotes, if one does; to is the
\* recipient of a send; n tells the fetches of a handler's runs apart: it
\* is the number of the user's click that started the run; resp is the
\* response on its way to the page, NoExchange while the server has not
\* served the request.
Task(fn, method, id, title, content, after) ==
    [fn |-> fn, method |-> method, id |-> id, title |-> title,
     content |-> content, after |-> after, to |-> Undefined, n |-> 0,
     resp |-> NoExchange]

Numbered(task, n) == [task EXCEPT !.n = n]

NoTask == Task("", "", NoId, Undefined, Undefined, "")

\* loadNotes() up to its await.
LoadNotesTask(after) == Task("loadNotes", "LIST", NoId, Undefined, Undefined, after)

\* What a handler did: the fetch it issued (NoTask if none), the status of
\* the response it resumed with (0 if none, or if the fetch failed), the
\* alert it showed ("" if none), the fetch it went on to issue, and the
\* user's answer to its confirm() ("" if it asked nothing).
ClientEvent(handler, issued, status, alert, next) ==
    [handler |-> handler, issued |-> issued, status |-> status,
     alert |-> alert, next |-> next, confirm |-> ""]

NoClientEvent == ClientEvent("", NoTask, 0, "", NoTask)

\* The result of a handler's run: the page, and what it did.
Ran(c, ev) == [c |-> c, ev |-> ev]

\* What the page keeps of the last event: the handler, the status and the
\* dialogs.  The fetches are in tasks.
Shown(ev) ==
    [handler |-> ev.handler, status |-> ev.status, alert |-> ev.alert,
     confirm |-> ev.confirm, n |-> 0, click |-> ""]

\* The last event after the user's n-th click ran a handler, after the
\* handler of task resumed, and after the user typed: n is the number of
\* the click that started the run, click the handler of the last click.
AfterClick(ev, n) == [Shown(ev) EXCEPT !.n = n, !.click = ev.handler]

AfterResume(ev, task, prev) ==
    [Shown(ev) EXCEPT !.n = task.n, !.click = prev.click]

AfterTyping(prev) == [Shown(NoClientEvent) EXCEPT !.click = prev.click]

\* showEditor() and hideEditor()
showEditor(c) == [c EXCEPT !.editor = TRUE]

hideEditor(c) == [c EXCEPT !.editor = FALSE]

\* createNewNote()
createNewNote(c) ==
    Ran(showEditor([c EXCEPT !.currentNoteId = NoId, !.noteTitle = <<>>,
                             !.noteContent = <<>>]),
        ClientEvent("createNewNote", NoTask, 0, "", NoTask))

\* cancelEdit().  The first of the two reloads the list from the server.
cancelEdit_Reloads(c) ==
    Ran([hideEditor(c) EXCEPT !.currentNoteId = NoId],
        ClientEvent("cancelEdit", LoadNotesTask(""), 0, "", NoTask))

cancelEdit(c) ==
    Ran([hideEditor(c) EXCEPT !.currentNoteId = NoId],
        ClientEvent("cancelEdit", NoTask, 0, "", NoTask))

\* loadNote(id) up to its await.
loadNote(c, id) ==
    Ran(c, ClientEvent("loadNote",
                       Task("loadNote", "GET", id, Undefined, Undefined, ""),
                       0, "", NoTask))

\* saveNote() up to its await.
saveNote(c) ==
    LET title == Trim(c.noteTitle)
        content == Trim(c.noteContent)
    IN  IF title = <<>> \/ content = <<>>
        THEN Ran(c, ClientEvent("saveNote", NoTask, 0,
                                "Please enter both title and content", NoTask))
        ELSE IF c.currentNoteId # NoId /\ c.currentNoteId # UndefinedId
        THEN Ran(c, ClientEvent("saveNote",
                                Task("saveNote", "PUT", c.currentNoteId,
                                     Str(title), Str(content), ""),
                                0, "", NoTask))
        ELSE Ran(c, ClientEvent("saveNote",
                                Task("saveNote", "POST", NoId, Str(title),
                                     Str(content), ""),
                                0, "", NoTask))

\* deleteNote() up to its await; confirmed is the user's answer to confirm().
deleteNote(c, confirmed) ==
    IF c.currentNoteId = NoId \/ c.currentNoteId = UndefinedId
    THEN Ran(c, ClientEvent("deleteNote", NoTask, 0, "", NoTask))
    ELSE IF ~confirmed
    THEN Ran(c, [ClientEvent("deleteNote", NoTask, 0, "", NoTask)
                     EXCEPT !.confirm = "cancel"])
    ELSE Ran(c, [ClientEvent("deleteNote",
                             Task("deleteNote", "DELETE", c.currentNoteId,
                                  Undefined, Undefined, ""),
                             0, "", NoTask)
                     EXCEPT !.confirm = "ok"])

\* What the user types into the recipient and the subject of the modal.
RecipientInputs == {<<" ">>, <<"n">>, <<"a", "@", "b", ".", "c">>}

SubjectTyped == {<<>>}

\* The fetch of sendEmailHandler(): title holds the subject.
SendTask(to, subject, content) ==
    [Task("sendEmailHandler", "SEND", NoId, subject, content, "")
         EXCEPT !.to = to]

\* openEmailModal().  The first of the two tests the fields as typed.
openEmailModal_Untrimmed(c) ==
    IF c.noteTitle = <<>> \/ c.noteContent = <<>>
    THEN Ran(c, ClientEvent("openEmailModal", NoTask, 0,
                            "Please enter both title and content before emailing",
                            NoTask))
    ELSE Ran([c EXCEPT !.emailSubject = Trim(c.noteTitle),
                       !.emailPreview = Trim(c.noteContent),
                       !.modal = TRUE],
             ClientEvent("openEmailModal", NoTask, 0, "", NoTask))

openEmailModal(c) ==
    LET title == Trim(c.noteTitle)
        content == Trim(c.noteContent)
    IN  IF title = <<>> \/ content = <<>>
        THEN Ran(c, ClientEvent("openEmailModal", NoTask, 0,
                                "Please enter both title and content before emailing",
                                NoTask))
        ELSE Ran([c EXCEPT !.emailSubject = title, !.emailPreview = content,
                           !.modal = TRUE],
                 ClientEvent("openEmailModal", NoTask, 0, "", NoTask))

\* closeEmailModal()
closeEmailModal(c) ==
    Ran([c EXCEPT !.modal = FALSE, !.emailTo = <<>>, !.emailSubject = <<>>,
                  !.emailPreview = <<>>],
        ClientEvent("closeEmailModal", NoTask, 0, "", NoTask))

\* sendEmailHandler() up to its await.  The first of the two leaves the
\* send button enabled.
sendEmailHandler_Enabled(c) ==
    LET to == Trim(c.emailTo)
        subject == Trim(c.emailSubject)
        content == Trim(c.noteContent)
    IN  IF to = <<>> \/ subject = <<>> \/ content = <<>>
        THEN Ran(c, ClientEvent("sendEmailHandler", NoTask, 0,
                                "Please fill in all fields", NoTask))
        ELSE Ran(c, ClientEvent("sendEmailHandler",
                                SendTask(Str(to), Str(subject), Str(content)),
                                0, "", NoTask))

sendEmailHandler(c) ==
    LET to == Trim(c.emailTo)
        subject == Trim(c.emailSubject)
        content == Trim(c.noteContent)
    IN  IF to = <<>> \/ subject = <<>> \/ content = <<>>
        THEN Ran(c, ClientEvent("sendEmailHandler", NoTask, 0,
                                "Please fill in all fields", NoTask))
        ELSE Ran([c EXCEPT !.sendDisabled = TRUE],
                 ClientEvent("sendEmailHandler",
                             SendTask(Str(to), Str(subject), Str(content)),
                             0, "", NoTask))

\* The id of the JSON body of a response of the note routes: the note's on
\* success, undefined on { error }.
JsonId(resp) == IF resp.status \in {200, 201} THEN resp.note.id ELSE UndefinedId

\* The value an input takes when set to a field of the JSON body:
\* the field's text, or "undefined" for a field the body lacks.
JsonText(resp, field) ==
    IF resp.status \in {200, 201} THEN field.str ELSE <<"undefined">>

\* The ids of rows, in order.
Ids(rows) == [i \in 1..Len(rows) |-> rows[i].id]

\* The handler of task resumes with the response resp of the server.
Resumed(c, task, resp) ==
    CASE task.fn = "loadNotes" ->
             Ran(IF task.after = "deleteNote"
                 THEN hideEditor([c EXCEPT !.notes = Ids(resp.rows)])
                 ELSE [c EXCEPT !.notes = Ids(resp.rows)],
                 ClientEvent(task.fn, task, resp.status, "", NoTask))
      [] task.fn = "loadNote" ->
             Ran(showEditor([c EXCEPT
                     !.currentNoteId = JsonId(resp),
                     !.noteTitle = JsonText(resp, resp.note.title),
                     !.noteContent = JsonText(resp, resp.note.content)]),
                 ClientEvent(task.fn, task, resp.status, "", NoTask))
      [] task.fn = "saveNote" ->
             Ran([c EXCEPT !.currentNoteId = JsonId(resp)],
                 ClientEvent(task.fn, task, resp.status, "",
                             LoadNotesTask("saveNote")))
      [] task.fn = "deleteNote" ->
             Ran([c EXCEPT !.currentNoteId = NoId],
                 ClientEvent(task.fn, task, resp.status, "",
                             LoadNotesTask("deleteNote")))
      [] task.fn = "sendEmailHandler" ->
             IF resp.status \in 200..299 /\ resp.body.success
             THEN Ran([closeEmailModal(c).c EXCEPT !.sendDisabled = FALSE],
                      ClientEvent(task.fn, task, resp.status,
                                  "Email sent successfully!", NoTask))
             ELSE Ran([c EXCEPT !.sendDisabled = FALSE],
                      ClientEvent(task.fn, task, resp.status,
                                  "Failed to send email: (the error of the response)",
                                  NoTask))

\* The fetch of task fails (the server cannot be reached): the handler's
\* catch runs, and after loadNotes the handler that awaits it goes on.
Failed(c, task) ==
    CASE task.fn = "loadNotes" ->
             Ran(IF task.after = "deleteNote" THEN hideEditor(c) ELSE c,
                 ClientEvent(task.fn, task, 0,
                             "Failed to load notes. Make sure the server is running.",
                             NoTask))
      [] task.fn = "loadNote" ->
             Ran(c, ClientEvent(task.fn, task, 0, "Failed to load note", NoTask))
      [] task.fn = "saveNote" ->
             Ran(c, ClientEvent(task.fn, task, 0, "Failed to save note", NoTask))
      [] task.fn = "deleteNote" ->
             Ran(c, ClientEvent(task.fn, task, 0, "Failed to delete note", NoTask))
      [] task.fn = "sendEmailHandler" ->
             Ran([c EXCEPT !.sendDisabled = FALSE],
                 ClientEvent(task.fn, task, 0,
                             "Failed to send email: (the message of the error)",
                             NoTask))

\* No page is open.
ClientIdle ==
    /\ client = ClientInit
    /\ tasks = {}
    /\ cev = Shown(NoClientEvent)
    /\ clicks = 0

\* The table after init.sql, before any request.
NotesInit ==
    /\ notes = {}
    /\ notes_id_seq = 1
    /\ now = 0
    /\ assigned = <<>>
    /\ deleted = {}
    /\ writes = <<>>
    /\ last = NoExchange
    /\ during = FALSE

\* No update request is in flight.
RaceInit ==
    /\ flying = {}
    /\ applied = [id \in {} |-> 0]

\* The server starts without mail credentials in its environment.
Init ==
    /\ NotesInit
    /\ RaceInit
    /\ ClientIdle
    /\ env = [GMAIL_USER |-> Undefined, GMAIL_APP_PASSWORD |-> Undefined]
    /\ MailModuleInit

\* The storage engine's clock advances.
Tick ==
    /\ now < MaxTime
    /\ now' = now + 1
    /\ UNCHANGED <<notes, notes_id_seq, assigned, deleted, writes, last, during>>
    /\ UNCHANGED exceptNotes

\* app.get('/api/notes')
GetNotes ==
    /\ \E rows \in SelectNotes(notes) :
           last' = Exchange("LIST", 0, Undefined, Undefined, TRUE, 200,
                            NoNote, rows, "")
    /\ during' = (pending # <<>>)
    /\ UNCHANGED <<notes, notes_id_seq, now, assigned, deleted, writes>>
    /\ UNCHANGED exceptNotes

\* app.get('/api/notes/:id'): the response.
GetNoteById(tbl, id) ==
    LET rows == SelectNote(tbl, id)
    IN  IF rows = {}
        THEN Exchange("GET", id, Undefined, Undefined, TRUE, 404, NoNote,
                      <<>>, "Note not found")
        ELSE Exchange("GET", id, Undefined, Undefined, TRUE, 200,
                      FirstRow(rows), <<>>, "")

\* A GET /api/notes/:id request is served.
GetNote(id) ==
    /\ last' = GetNoteById(notes, id)
    /\ during' = (pending # <<>>)
    /\ UNCHANGED <<notes, notes_id_seq, now, assigned, deleted, writes>>
    /\ UNCHANGED exceptNotes

\* Fault: the handler tests the title only.
PostNotes_NoContentCheck(tbl, seq, t, title, content) ==
    IF ~Truthy(title)
    THEN [table |-> tbl, seq |-> seq,
          resp |-> Exchange("POST", 0, title, content, FALSE, 400, NoNote,
                            <<>>, "Title and content are required")]
    ELSE LET result == InsertNote(tbl, seq, t, title, content)
         IN  IF result.ok
             THEN [table |-> result.table, seq |-> result.seq,
                   resp |-> Exchange("POST", 0, title, content, TRUE, 201,
                                     FirstRow(result.rows), <<>>, "")]
             ELSE [table |-> result.table, seq |-> result.seq,
                   resp |-> Exchange("POST", 0, title, content, TRUE, 500,
                                     NoNote, <<>>, "Failed to create note")]

\* Fault: `!title && !content` in place of `!title || !content`.
PostNotes_And(tbl, seq, t, title, content) ==
    IF ~Truthy(title) /\ ~Truthy(content)
    THEN [table |-> tbl, seq |-> seq,
          resp |-> Exchange("POST", 0, title, content, FALSE, 400, NoNote,
                            <<>>, "Title and content are required")]
    ELSE LET result == InsertNote(tbl, seq, t, title, content)
         IN  IF result.ok
             THEN [table |-> result.table, seq |-> result.seq,
                   resp |-> Exchange("POST", 0, title, content, TRUE, 201,
                                     FirstRow(result.rows), <<>>, "")]
             ELSE [table |-> result.table, seq |-> result.seq,
                   resp |-> Exchange("POST", 0, title, content, TRUE, 500,
                                     NoNote, <<>>, "Failed to create note")]

\* app.post('/api/notes'): the response and the storage after it.
PostNotes(tbl, seq, t, title, content) ==
    IF ~Truthy(title) \/ ~Truthy(content)
    THEN [table |-> tbl, seq |-> seq,
          resp |-> Exchange("POST", 0, title, content, FALSE, 400, NoNote,
                            <<>>, "Title and content are required")]
    ELSE LET result == InsertNote(tbl, seq, t, title, content)
         IN  IF result.ok
             THEN [table |-> result.table, seq |-> result.seq,
                   resp |-> Exchange("POST", 0, title, content, TRUE, 201,
                                     FirstRow(result.rows), <<>>, "")]
             ELSE [table |-> result.table, seq |-> result.seq,
                   resp |-> Exchange("POST", 0, title, content, TRUE, 500,
                                     NoNote, <<>>, "Failed to create note")]

\* Fault: the handler looks the note up before it tests the fields.
PutNote_ExistsFirst(tbl, seq, t, id, title, content) ==
    IF SelectNote(tbl, id) = {}
    THEN [table |-> tbl, seq |-> seq,
          resp |-> Exchange("PUT", id, title, content, TRUE, 404, NoNote,
                            <<>>, "Note not found")]
    ELSE IF ~Truthy(title) \/ ~Truthy(content)
    THEN [table |-> tbl, seq |-> seq,
          resp |-> Exchange("PUT", id, title, content, TRUE, 400, NoNote,
                            <<>>, "Title and content are required")]
    ELSE LET result == UpdateNote(tbl, seq, t, title, content, id)
         IN  IF ~result.ok
             THEN [table |-> result.table, seq |-> result.seq,
                   resp |-> Exchange("PUT", id, title, content, TRUE, 500,
                                     NoNote, <<>>, "Failed to update note")]
             ELSE [table |-> result.table, seq |-> result.seq,
                   resp |-> Exchange("PUT", id, title, content, TRUE, 200,
                                     FirstRow(result.rows), <<>>, "")]

\* app.put('/api/notes/:id'): the response and the storage after it.
PutNote(tbl, seq, t, id, title, content) ==
    IF ~Truthy(title) \/ ~Truthy(content)
    THEN [table |-> tbl, seq |-> seq,
          resp |-> Exchange("PUT", id, title, content, FALSE, 400, NoNote,
                            <<>>, "Title and content are required")]
    ELSE LET result == UpdateNote(tbl, seq, t, title, content, id)
         IN  IF ~result.ok
             THEN [table |-> result.table, seq |-> result.seq,
                   resp |-> Exchange("PUT", id, title, content, TRUE, 500,
                                     NoNote, <<>>, "Failed to update note")]
             ELSE IF result.rows = {}
             THEN [table |-> result.table, seq |-> result.seq,
                   resp |-> Exchange("PUT", id, title, content, TRUE, 404,
                                     NoNote, <<>>, "Note not found")]
             ELSE [table |-> result.table, seq |-> result.seq,
                   resp |-> Exchange("PUT", id, title, content, TRUE, 200,
                                     FirstRow(result.rows), <<>>, "")]

\* app.delete('/api/notes/:id'): the response and the storage after it.
DeleteNoteById(tbl, seq, id) ==
    LET result == DeleteNote(tbl, seq, id)
    IN  IF result.rows = {}
        THEN [table |-> result.table, seq |-> result.seq,
              resp |-> Exchange("DELETE", id, Undefined, Undefined, TRUE, 404,
                                NoNote, <<>>, "Note not found")]
        ELSE [table |-> result.table, seq |-> result.seq,
              resp |-> Exchange("DELETE", id, Undefined, Undefined, TRUE, 200,
                                NoNote, <<>>, "Note deleted successfully")]

\* A POST /api/notes request is served.  The sequence stops at MaxId and
\* the clock at MaxTime.  CURRENT_TIMESTAMP counts microseconds, so the
\* clock has moved on when the response is out: statements of requests
\* served one after another do not stamp the same time.
Create(title, content) ==
    /\ (Truthy(title) /\ Truthy(content)) =>
           (notes_id_seq <= MaxId /\ now < MaxTime)
    /\ LET out == PostNotes(notes, notes_id_seq, now, title, content)
       IN  /\ notes' = out.table
           /\ notes_id_seq' = out.seq
           /\ last' = out.resp
           /\ assigned' = IF out.resp.status = 201
                          THEN Append(assigned, out.resp.note.id)
                          ELSE assigned
           /\ now' = IF out.resp.status = 201 THEN now + 1 ELSE now
           /\ writes' = IF out.resp.status = 201
                        THEN Append(writes, Written("POST", out.resp.note.id))
                        ELSE writes
    /\ during' = (pending # <<>>)
    /\ UNCHANGED deleted
    /\ UNCHANGED exceptNotes

\* A PUT /api/notes/:id request is served.
Update(id, title, content) ==
    /\ (Truthy(title) /\ Truthy(content)) => now < MaxTime
    /\ LET out == PutNote(notes, notes_id_seq, now, id, title, content)
       IN  /\ notes' = out.table
           /\ notes_id_seq' = out.seq
           /\ last' = out.resp
           /\ now' = IF out.resp.status = 200 THEN now + 1 ELSE now
           /\ writes' = IF out.resp.status = 200
                        THEN Append(writes, Written("PUT", id))
                        ELSE writes
    /\ during' = (pending # <<>>)
    /\ UNCHANGED <<assigned, deleted>>
    /\ UNCHANGED exceptNotes

\* A DELETE /api/notes/:id request is served.
Delete(id) ==
    /\ LET out == DeleteNoteById(notes, notes_id_seq, id)
       IN  /\ notes' = out.table
           /\ notes_id_seq' = out.seq
           /\ last' = out.resp
           /\ deleted' = IF out.resp.status = 200
                         THEN deleted \cup {id}
                         ELSE deleted
    /\ during' = (pending # <<>>)
    /\ UNCHANGED <<now, assigned, writes>>
    /\ UNCHANGED exceptNotes

Next ==
    \/ Tick
    \/ GetNotes
    \/ \E id \in IdInputs : GetNote(id)
    \/ \E body \in Bodies : Create(body.title, body.content)
    \/ \E id \in IdInputs, body \in Bodies :
           Update(id, body.title, body.content)
    \/ \E id \in IdInputs : Delete(id)

Spec == Init /\ [][Next]_vars

(***************************************************************************)
(* The mail routes as a state machine of their own.                        *)
(***************************************************************************)
\* The server starts with any environment.
InitMail ==
    /\ NotesInit
    /\ RaceInit
    /\ ClientIdle
    /\ env \in Envs
    /\ MailModuleInit

\* The process environment changes; the module reads it at each call.
SetEnv(e) ==
    /\ e # env
    /\ env' = e
    /\ UNCHANGED <<transporter, userEmail, created, pending, mlast, answer>>
    /\ UNCHANGED exceptMail

\* A GET /api/email/status request is served.
EmailStatus ==
    /\ LET out == EmailStatusRoute(env, Module(transporter, userEmail, created))
       IN  /\ mlast' = out.resp
           /\ transporter' = out.mod.transporter
           /\ userEmail' = out.mod.userEmail
           /\ created' = out.mod.created
    /\ answer' = NoAnswer
    /\ UNCHANGED <<env, pending>>
    /\ UNCHANGED exceptMail

\* A POST /api/email/send request is served up to its await.  No more than
\* MaxSends calls await the transport.
EmailSend(to, subject, content) ==
    /\ LET out == EmailSendRoute(env, Module(transporter, userEmail, created),
                                 to, subject, content)
       IN  /\ out.resp.called => Len(pending) < MaxSends
           /\ mlast' = out.resp
           /\ transporter' = out.mod.transporter
           /\ userEmail' = out.mod.userEmail
           /\ created' = out.mod.created
           /\ pending' = IF out.resp.called
                         THEN Append(pending, out.resp.handle)
                         ELSE pending
    /\ answer' = NoAnswer
    /\ UNCHANGED env
    /\ UNCHANGED exceptMail

\* pending without its i-th element.
Settled(i) == SubSeq(pending, 1, i - 1) \o SubSeq(pending, i + 1, Len(pending))

\* The transport resolves one of the sendMail calls: the handler resumes
\* and responds.
TransportResolves(i, messageId) ==
    /\ i \in 1..Len(pending)
    /\ answer' = Answer("resolved", messageId)
    /\ mlast' = EmailSendAwaited(pending[i], sendEmailAwaited(answer'))
    /\ pending' = Settled(i)
    /\ UNCHANGED <<env, transporter, userEmail, created>>
    /\ UNCHANGED exceptMail

\* The transport rejects one of the sendMail calls: sendEmail rethrows and
\* the handler responds.
TransportRejects(i, error) ==
    /\ i \in 1..Len(pending)
    /\ answer' = Answer("rejected", error)
    /\ mlast' = EmailSendAwaited(pending[i], sendEmailAwaited(answer'))
    /\ pending' = Settled(i)
    /\ UNCHANGED <<env, transporter, userEmail, created>>
    /\ UNCHANGED exceptMail

NextMail ==
    \/ \E e \in Envs : SetEnv(e)
    \/ EmailStatus
    \/ \E to \in ToInputs, subject \in SubjectInputs, content \in ContentInputs :
           EmailSend(to, subject, content)
    \/ \E i \in 1..MaxSends, messageId \in MessageIds :
           TransportResolves(i, messageId)
    \/ \E i \in 1..MaxSends, error \in TransportErrors :
           TransportRejects(i, error)

SpecMail == InitMail /\ [][NextMail]_vars

(***************************************************************************)
(* Update requests in flight together: app.put('/api/notes/:id') awaits    *)
(* pool.query, and storage runs the statements one at a time in the order  *)
(* they reach it, which need not be the order of the requests.             *)
(***************************************************************************)
\* Most update requests awaiting storage at one time.
MaxFlying == 2

\* The body the creates carry and the bodies the updates carry.
RaceCreateBody == Body(Str(<<"a">>), Str(<<"x">>))

RaceBodies ==
    {Body(Str(<<"b">>), Str(<<"y">>)), Body(Str(<<"c">>), Str(<<"z">>)),
     Body(Str(<<>>), Str(<<"y">>))}

\* An update request past its validation: its statement and parameters.
Statement(id, title, content) == [id |-> id, title |-> title, content |-> content]

\* The statements an update request may send.
RaceStatements ==
    {Statement(id, body.title, body.content) : id \in IdInputs, body \in RaceBodies}

\* A statement storage ran, the others for the same note that were in flight
\* then, and whether it was itself in flight when storage ran the one before
\* it for that note.
Applied(st, others, overlapped) ==
    [st |-> st, others |-> others, overlapped |-> overlapped]

\* A PUT /api/notes/:id request arrives: the handler answers 400 at once or
\* sends its statement and awaits storage.
UpdateBegin(id, title, content) ==
    /\ IF ~Truthy(title) \/ ~Truthy(content)
       THEN /\ last' = PutNote(notes, notes_id_seq, now, id, title, content).resp
            /\ UNCHANGED flying
       ELSE /\ Cardinality(flying) < MaxFlying
            /\ Statement(id, title, content) \notin flying
            /\ flying' = flying \cup {Statement(id, title, content)}
            /\ UNCHANGED last
    /\ UNCHANGED <<notes, notes_id_seq, now, assigned, deleted, writes, applied,
                    during>>
    /\ UNCHANGED exceptRace

\* Storage runs the statement of one of the requests in flight, and the
\* handler of that request resumes and responds.
UpdateApply(st) ==
    /\ st \in flying
    /\ now < MaxTime
    /\ LET out == PutNote(notes, notes_id_seq, now, st.id, st.title, st.content)
       IN  /\ notes' = out.table
           /\ notes_id_seq' = out.seq
           /\ last' = out.resp
           /\ now' = IF out.resp.status = 200 THEN now + 1 ELSE now
           /\ writes' = IF out.resp.status = 200
                        THEN Append(writes, Written("PUT", st.id))
                        ELSE writes
           /\ applied' =
                  IF out.resp.status = 200
                  THEN [id \in DOMAIN applied \cup {st.id} |->
                            IF id = st.id
                            THEN Applied(st,
                                         {o \in flying \ {st} : o.id = st.id},
                                         /\ st.id \in DOMAIN applied
                                         /\ st \in applied[st.id].others)
                            ELSE applied[id]]
                  ELSE applied
    /\ flying' = flying \ {st}
    /\ UNCHANGED <<assigned, deleted, during>>
    /\ UNCHANGED exceptRace

NextRace ==
    \/ Create(RaceCreateBody.title, RaceCreateBody.content)
    \/ \E id \in IdInputs, body \in RaceBodies :
           UpdateBegin(id, body.title, body.content)
    \/ \E st \in RaceStatements : UpdateApply(st)

SpecRace == Init /\ [][NextRace]_vars

(***************************************************************************)
(* The note routes and the send route in one process: server.js serves     *)
(* them from one event loop.                                               *)
(***************************************************************************)
\* The valid body and the valid send request of this machine.
ServerBody == Body(Str(<<"a">>), Str(<<"x">>))

ServerMail ==
    [to |-> Str(<<"a", "@", "b", ".", "c">>), subject |-> Str(<<"s">>),
     content |-> Str(<<"a">>)]

\* Whether the sends awaiting the transport hold the event loop.  sendEmail
\* awaits transporter.sendMail, which hands the loop back: they never do.
\* The first of the two is a send that waits for the transport in place.
EventLoopHeld_InPlace(p) == p # <<>>

EventLoopHeld(p) == FALSE

\* The server starts with both credentials in its environment.
InitServer ==
    /\ NotesInit
    /\ RaceInit
    /\ ClientIdle
    /\ env = [GMAIL_USER |-> Str(<<"u">>), GMAIL_APP_PASSWORD |-> Str(<<"u">>)]
    /\ MailModuleInit

\* The note requests, served when the event loop is free.
ServerGetNotes == ~EventLoopHeld(pending) /\ GetNotes

ServerGetNote(id) == ~EventLoopHeld(pending) /\ GetNote(id)

ServerCreate == ~EventLoopHeld(pending) /\ Create(ServerBody.title, ServerBody.content)

ServerUpdate(id) ==
    ~EventLoopHeld(pending) /\ Update(id, ServerBody.title, ServerBody.content)

ServerDelete(id) == ~EventLoopHeld(pending) /\ Delete(id)

ServerSend == EmailSend(ServerMail.to, ServerMail.subject, ServerMail.content)

NextServer ==
    \/ ServerGetNotes
    \/ \E id \in IdInputs : ServerGetNote(id)
    \/ ServerCreate
    \/ \E id \in IdInputs : ServerUpdate(id)
    \/ \E id \in IdInputs : ServerDelete(id)
    \/ ServerSend
    \/ \E i \in 1..MaxSends, messageId \in MessageIds :
           TransportResolves(i, messageId)
    \/ \E i \in 1..MaxSends, error \in TransportErrors :
           TransportRejects(i, error)

SpecServer == InitServer /\ [][NextServer]_vars

\* The response of the note routes to the fetch of task, with rows as the
\* order the SELECT of the list route returns.
NoteRoute(task, tbl, seq, t, rows) ==
    CASE task.method = "LIST" ->
             [table |-> tbl, seq |-> seq,
              resp |-> Exchange("LIST", 0, Undefined, Undefined, TRUE, 200,
                                NoNote, rows, "")]
      [] task.method = "GET" ->
             [table |-> tbl, seq |-> seq, resp |-> GetNoteById(tbl, task.id)]
      [] task.method = "POST" ->
             PostNotes(tbl, seq, t, task.title, task.content)
      [] task.method = "PUT" ->
             PutNote(tbl, seq, t, task.id, task.title, task.content)
      [] task.method = "DELETE" ->
             DeleteNoteById(tbl, seq, task.id)

(***************************************************************************)
(* The page and the note routes.  The response to a fetch reaches the page *)
(* in the step in which the server serves it.                              *)
(***************************************************************************)
\* The table after two creates, served at times 0 and 1.
TwoNotes ==
    LET body == Body(Str(<<"a">>), Str(<<"x">>))
        one  == InsertNote({}, 1, 0, body.title, body.content)
    IN  InsertNote(one.table, one.seq, 1, body.title, body.content)

\* The page is loaded, over the empty table or over the table two creates
\* have left: loadNotes() is under way.
InitClient ==
    /\ \/ NotesInit
       \/ /\ notes = TwoNotes.table
          /\ notes_id_seq = TwoNotes.seq
          /\ now = 2
          /\ assigned = <<>>
          /\ deleted = {}
          /\ writes = <<>>
          /\ last = NoExchange
          /\ during = FALSE
    /\ RaceInit
    /\ env = [GMAIL_USER |-> Str(<<"u">>), GMAIL_APP_PASSWORD |-> Str(<<"u">>)]
    /\ MailModuleInit
    /\ client = ClientInit
    /\ tasks = {LoadNotesTask("")}
    /\ cev = Shown(NoClientEvent)
    /\ clicks = 0

\* A handler ran on the page: the page and the last event are its result,
\* and the fetch it issued, if any, is under way.
Handled(run) ==
    /\ clicks < MaxClicks
    /\ clicks' = clicks + 1
    /\ run.ev.issued # NoTask => Cardinality(tasks) < MaxTasks
    /\ client' = run.c
    /\ cev' = AfterClick(run.ev, clicks')
    /\ tasks' = IF run.ev.issued # NoTask
                THEN tasks \cup {Numbered(run.ev.issued, clicks')}
                ELSE tasks
    /\ UNCHANGED exceptClient

\* The user clicks "new note".
ClickNew == Handled(createNewNote(client))

\* The user clicks the i-th entry of the list.
ClickNote(i) ==
    /\ i \in 1..Len(client.notes)
    /\ Handled(loadNote(client, client.notes[i]))

\* The user types a title and a content into the editor: no handler runs.
TypeDraft(draft) ==
    /\ client.editor
    /\ client' = [client EXCEPT !.noteTitle = draft.title,
                                !.noteContent = draft.content]
    /\ cev' = AfterTyping(cev)
    /\ UNCHANGED <<tasks, clicks>>
    /\ UNCHANGED exceptClient

\* The user clicks save, delete (and answers the confirm dialog) or cancel.
\* The first of the two saves takes no click while a save is under way.
ClickSave_Debounced ==
    /\ client.editor
    /\ \A t \in tasks : t.fn # "saveNote"
    /\ Handled(saveNote(client))

ClickSave == client.editor /\ Handled(saveNote(client))

ClickDelete(confirmed) == client.editor /\ Handled(deleteNote(client, confirmed))

ClickCancel == client.editor /\ Handled(cancelEdit(client))

\* The user clicks the email button of the editor.
ClickEmail == client.editor /\ Handled(openEmailModal(client))

\* The user closes the modal: its cancel button, its x, or a click outside.
ClickClose == client.modal /\ Handled(closeEmailModal(client))

\* The user types a recipient, or a subject, into the modal.
TypeTo(to) ==
    /\ client.modal
    /\ client' = [client EXCEPT !.emailTo = to]
    /\ cev' = AfterTyping(cev)
    /\ UNCHANGED <<tasks, clicks>>
    /\ UNCHANGED exceptClient

TypeSubject(subject) ==
    /\ client.modal
    /\ client' = [client EXCEPT !.emailSubject = subject]
    /\ cev' = AfterTyping(cev)
    /\ UNCHANGED <<tasks, clicks>>
    /\ UNCHANGED exceptClient

\* The user clicks the send button of the modal, which takes no click
\* while it is disabled.
ClickSend ==
    /\ client.modal
    /\ ~client.sendDisabled
    /\ Handled(sendEmailHandler(client))

\* The server serves the fetch of task and the handler resumes with the
\* response.  Creates and updates stop at the bounds of sequence and clock.
TaskResponds(task) ==
    /\ task \in tasks
    /\ task.resp = NoExchange
    /\ task.method = "POST" => (notes_id_seq <= MaxId /\ now < MaxTime)
    /\ task.method = "PUT" => now < MaxTime
    /\ task.fn # "sendEmailHandler"
    /\ \E rows \in SelectNotes(notes) :
           LET out == NoteRoute(task, notes, notes_id_seq, now, rows)
               run == Resumed(client, task, out.resp)
               ok  == out.resp.status \in {200, 201}
           IN  /\ notes' = out.table
               /\ notes_id_seq' = out.seq
               /\ now' = IF ok /\ task.method \in {"POST", "PUT"}
                         THEN now + 1 ELSE now
               /\ client' = run.c
               /\ cev' = AfterResume(run.ev, task, cev)
               /\ tasks' = (tasks \ {task}) \cup
                               (IF run.ev.next # NoTask
                                THEN {Numbered(run.ev.next, task.n)}
                                ELSE {})
    /\ UNCHANGED <<assigned, deleted, writes, last, during, clicks>>
    /\ UNCHANGED <<mailVars, raceVars>>

\* The answers of the transport to a sendMail call.
TransportAnswers ==
    {Answer("resolved", messageId) : messageId \in MessageIds}
        \cup {Answer("rejected", error) : error \in TransportErrors}

\* The server serves the send of task, the transport giving answer a if the
\* route calls it, and sendEmailHandler() resumes with the response.
SendResponds(task, a) ==
    /\ task \in tasks
    /\ task.fn = "sendEmailHandler"
    /\ LET out  == EmailSendRoute(env, Module(transporter, userEmail, created),
                                  task.to, task.title, task.content)
           resp == IF out.resp.called
                   THEN EmailSendAwaited(out.resp.handle, sendEmailAwaited(a))
                   ELSE out.resp
           run  == Resumed(client, task, resp)
       IN  /\ transporter' = out.mod.transporter
           /\ userEmail' = out.mod.userEmail
           /\ created' = out.mod.created
           /\ answer' = IF out.resp.called THEN a ELSE NoAnswer
           /\ client' = run.c
           /\ cev' = AfterResume(run.ev, task, cev)
           /\ tasks' = tasks \ {task}
    /\ UNCHANGED <<env, pending, mlast, clicks>>
    /\ UNCHANGED <<noteVars, raceVars>>

\* The fetch of task fails and the handler's catch runs.
TaskFails(task) ==
    /\ task \in tasks
    /\ LET run == Failed(client, task)
       IN  /\ client' = run.c
           /\ cev' = AfterResume(run.ev, task, cev)
           /\ tasks' = tasks \ {task}
    /\ UNCHANGED clicks
    /\ UNCHANGED exceptClient

NextClient ==
    \/ ClickNew
    \/ \E i \in 1..MaxId : ClickNote(i)
    \/ \E draft \in DraftInputs : TypeDraft(draft)
    \/ ClickSave
    \/ \E confirmed \in BOOLEAN : ClickDelete(confirmed)
    \/ ClickCancel
    \/ ClickEmail
    \/ ClickClose
    \/ \E to \in RecipientInputs : TypeTo(to)
    \/ \E subject \in SubjectTyped : TypeSubject(subject)
    \/ ClickSend
    \/ \E task \in tasks : TaskResponds(task)
    \/ \E task \in tasks, a \in TransportAnswers : SendResponds(task, a)
    \/ \E task \in tasks : TaskFails(task)

SpecClient == InitClient /\ [][NextClient]_vars

(***************************************************************************)
(* The page and the note routes with responses that take their time: the   *)
(* server serves a request in one step and the response reaches the page   *)
(* in a later one, so responses may arrive in another order than the       *)
(* server served the requests.  No fetch fails, and the modal stays shut.  *)
(***************************************************************************)
\* The server serves the fetch of task; the response is on its way.
NoteServed(task) ==
    /\ task \in tasks
    /\ task.resp = NoExchange
    /\ task.method = "POST" => (notes_id_seq <= MaxId /\ now < MaxTime)
    /\ task.method = "PUT" => now < MaxTime
    /\ task.fn # "sendEmailHandler"
    /\ \E rows \in SelectNotes(notes) :
           LET out == NoteRoute(task, notes, notes_id_seq, now, rows)
               ok  == out.resp.status \in {200, 201}
           IN  /\ notes' = out.table
               /\ notes_id_seq' = out.seq
               /\ now' = IF ok /\ task.method \in {"POST", "PUT"}
                         THEN now + 1 ELSE now
               /\ tasks' = (tasks \ {task}) \cup
                               {[task EXCEPT !.resp = out.resp]}
    /\ UNCHANGED <<assigned, deleted, writes, last, during>>
    /\ UNCHANGED <<client, cev, clicks>>
    /\ UNCHANGED <<mailVars, raceVars>>

\* The response to the fetch of task reaches the page and the handler
\* resumes with it.
NoteArrives(task) ==
    /\ task \in tasks
    /\ task.resp # NoExchange
    /\ LET run == Resumed(client, task, task.resp)
       IN  /\ client' = run.c
           /\ cev' = AfterResume(run.ev, task, cev)
           /\ tasks' = (tasks \ {task}) \cup
                           (IF run.ev.next # NoTask
                            THEN {Numbered(run.ev.next, task.n)}
                            ELSE {})
    /\ UNCHANGED clicks
    /\ UNCHANGED exceptClient

NextNet ==
    \/ ClickNew
    \/ \E i \in 1..MaxId : ClickNote(i)
    \/ \E draft \in DraftInputs : TypeDraft(draft)
    \/ ClickSave
    \/ \E confirmed \in BOOLEAN : ClickDelete(confirmed)
    \/ ClickCancel
    \/ \E task \in tasks : NoteServed(task)
    \/ \E task \in tasks : NoteArrives(task)

SpecNet == InitClient /\ [][NextNet]_vars

(***************************************************************************)
(* Properties.  last is the exchange served last, so a state predicate on  *)
(* last speaks of the state right after that request; an action formula    *)
(* [][P(last') => Q]_vars speaks of every step that ends with that         *)
(* exchange as the last one: the step that serves it, and clock ticks      *)
(* after it, which leave the table alone.                                  *)
(***************************************************************************)
\* The request served last is a create or an update.
IsWrite(x) == x.method \in {"POST", "PUT"}

\* C1: every create that the server accepts (201) returns a note with
\* exactly the title and content of the request and created_at =
\* updated_at, and a get(id) served right after it returns 200 with that
\* same title, content and timestamps.
C1_CreateThenGet ==
    (last.method = "POST" /\ last.status = 201) =>
        LET got == GetNoteById(notes, last.note.id)
        IN  /\ last.title.str # <<>> /\ last.content.str # <<>>
            /\ last.note.title = last.title
            /\ last.note.content = last.content
            /\ last.note.created_at = last.note.updated_at
            /\ got.status = 200
            /\ got.note.title = last.title
            /\ got.note.content = last.content
            /\ got.note.created_at = got.note.updated_at

\* C1 witness: a create was accepted at a time after the clock's start.
C1_Witness ==
    /\ last.method = "POST" /\ last.status = 201
    /\ last.note.created_at > 0

\* C2: in every step, a note that is stored before and after the step keeps
\* its created_at, and its updated_at does not decrease.
C2_CreatedFixedUpdatedMonotone ==
    [][\A n \in notes : \A m \in notes' :
           m.id = n.id =>
               /\ m.created_at = n.created_at
               /\ m.updated_at >= n.updated_at]_vars

\* C2 witness: an update succeeded on a note created at an earlier time.
C2_Witness ==
    /\ last.method = "PUT" /\ last.status = 200
    /\ last.note.updated_at > last.note.created_at

\* C3: every stored note has updated_at >= created_at.
C3_UpdatedNotBeforeCreated ==
    \A n \in notes : n.updated_at >= n.created_at

\* C3 witness: a stored note was updated after the time of its creation,
\* next to a note that was never updated.
C3_Witness ==
    \E n, m \in notes :
        n.updated_at > n.created_at /\ m.updated_at = m.created_at

\* C4: every stored note has a title and a content that are strings (not
\* null) and not empty, whatever bodies the creates and updates carried.
C4_StoredTextNonEmpty ==
    \A n \in notes :
        /\ n.title.kind = "string" /\ n.title.str # <<>>
        /\ n.content.kind = "string" /\ n.content.str # <<>>

\* C4 witness: an update with a null, missing or empty field was served
\* for the id of a stored note.
C4_Witness ==
    /\ last.method = "PUT"
    /\ last.title.str = <<>> \/ last.content.str = <<>>
    /\ SelectNote(notes, last.id) # {}

\* C5: stored notes have pairwise different ids, every stored id was
\* assigned by a create, and no two creates were assigned the same id, the
\* creates of notes deleted since included.
C5_IdsUniqueNeverReused ==
    /\ \A n, m \in notes : n.id = m.id => n = m
    /\ \A n \in notes : \E i \in 1..Len(assigned) : assigned[i] = n.id
    /\ \A i, j \in 1..Len(assigned) : i # j => assigned[i] # assigned[j]

\* C5 witness: a create was accepted after an earlier note was deleted.
C5_Witness ==
    /\ last.method = "POST" /\ last.status = 201
    /\ Len(assigned) = 2
    /\ Cardinality(notes) = 1

\* A body field that is missing, null or the empty string.
EmptyField(v) == v.kind # "string" \/ v.str = <<>>

\* A body field that is missing, null or empty once trimmed.
EmptyAfterTrim(v) == v.kind # "string" \/ Trim(v.str) = <<>>

\* C6: a create whose title, content or both are the empty string is
\* answered 400, and the step that serves it leaves the stored notes as
\* they were.
C6_CreateEmptyRejected ==
    [][(/\ last'.method = "POST"
        /\ last'.title = Str(<<>>) \/ last'.content = Str(<<>>))
       => (last'.status = 400 /\ notes' = notes)]_vars

\* C6 witness: a create with an empty title was answered 400 while a note
\* was stored.
C6_Witness ==
    /\ last.method = "POST" /\ last.status = 400
    /\ last.title = Str(<<>>)
    /\ notes # {}

\* C7 as stated: a create or update whose title or content is empty after
\* trimming is answered 400 and leaves the stored notes as they were.
C7_RejectsEmptyAfterTrim ==
    [][(/\ IsWrite(last')
        /\ EmptyAfterTrim(last'.title) \/ EmptyAfterTrim(last'.content))
       => (last'.status = 400 /\ notes' = notes)]_vars

\* C7 amended: a create or update whose title or content is missing, null
\* or the empty string is answered 400 and leaves the stored notes as they
\* were; the fields are not trimmed, so a request whose fields are both
\* non-empty is never answered 400, a whitespace-only field included.
C7_RejectsEmptyUntrimmed ==
    [][IsWrite(last') =>
           IF EmptyField(last'.title) \/ EmptyField(last'.content)
           THEN last'.status = 400 /\ notes' = notes
           ELSE last'.status # 400]_vars

\* C7 witness: a create with a whitespace-only title was accepted and the
\* note is stored with that title.
C7_Witness ==
    /\ last.method = "POST" /\ last.status = 201
    /\ last.title.str # <<>> /\ Trim(last.title.str) = <<>>
    /\ \E n \in notes : n.id = last.note.id /\ n.title = last.title

\* C8: an update with non-empty title and content for an id that no stored
\* note has is answered 404, and the step that serves it leaves the stored
\* notes as they were (no note is created, none changes).
C8_UpdateUnknownIdNotFound ==
    [][(/\ last'.method = "PUT"
        /\ ~EmptyField(last'.title) /\ ~EmptyField(last'.content)
        /\ \A n \in notes : n.id # last'.id)
       => (last'.status = 404 /\ notes' = notes)]_vars

\* C8 witness: an update for the id of a deleted note was answered 404
\* while another note was stored.
C8_Witness ==
    /\ last.method = "PUT" /\ last.status = 404
    /\ last.id < notes_id_seq
    /\ notes # {}

\* C9: after a successful update the note with that id carries the given
\* title and content; the step that serves it keeps that note's id and
\* created_at, and keeps every other stored note as it was.
C9_UpdateFrame ==
    [][(last'.method = "PUT" /\ last'.status = 200) =>
           /\ \E n \in notes : \E m \in notes' :
                  /\ n.id = last'.id /\ m.id = last'.id
                  /\ m.title = last'.title
                  /\ m.content = last'.content
                  /\ m.created_at = n.created_at
           /\ Cardinality({m \in notes' : m.id = last'.id}) = 1
           /\ {m \in notes' : m.id # last'.id} = {n \in notes : n.id # last'.id}]_vars

\* C9 witness: an update changed one of two stored notes at a later time
\* than the other note's last write.
C9_Witness ==
    /\ last.method = "PUT" /\ last.status = 200
    /\ \E m \in notes : m.id # last.id /\ m.updated_at < last.note.updated_at

\* C10: a create or update with a missing, null or empty title or content
\* is answered 400 without any storage statement issued, also when the
\* update names an id that no stored note has.
C10_ValidationBeforeStorage ==
    (/\ IsWrite(last)
     /\ EmptyField(last.title) \/ EmptyField(last.content))
    => (~last.queried /\ last.status = 400)

\* C10 witness: an update with an empty field for an id that no stored
\* note has was answered 400.
C10_Witness ==
    /\ last.method = "PUT" /\ last.status = 400
    /\ EmptyField(last.title) \/ EmptyField(last.content)
    /\ \A n \in notes : n.id # last.id

\* C11: once a delete of an id has succeeded, no stored note ever has that
\* id again, and every later get and every later delete of that id is
\* answered 404.
C11_DeletePermanent ==
    [][/\ \A n \in notes' : n.id \notin deleted
       /\ (/\ last' # last
           /\ last'.method \in {"GET", "DELETE"}
           /\ last'.id \in deleted)
          => last'.status = 404]_vars

\* C11 witness: a get of a deleted id was answered 404 after a later
\* create had stored another note.
C11_Witness ==
    /\ last.method = "GET" /\ last.status = 404
    /\ last.id \in deleted
    /\ notes # {}

\* C12: a successful delete removes the note with that id and no other
\* note; a delete answered 404, a get and a list leave the stored notes as
\* they were.
C12_DeleteFrame ==
    [][/\ (last'.method = "DELETE" /\ last'.status = 200) =>
              /\ notes' = {n \in notes : n.id # last'.id}
              /\ last' # last => \E n \in notes : n.id = last'.id
       /\ (\/ last'.method = "DELETE" /\ last'.status = 404
           \/ last'.method \in {"GET", "LIST"})
          => notes' = notes]_vars

\* C12 witness: a delete succeeded and left another note stored.
C12_Witness ==
    /\ last.method = "DELETE" /\ last.status = 200
    /\ notes # {}

\* C13: a list answers with every stored note exactly once, the empty
\* sequence when none is stored, in an order where updated_at does not
\* increase; the notes are those stored when the request is served.
C13_ListAllSorted ==
    last.method = "LIST" =>
        /\ last.status = 200
        /\ Len(last.rows) = Cardinality(notes)
        /\ {last.rows[i] : i \in 1..Len(last.rows)} = notes
        /\ \A i, j \in 1..Len(last.rows) :
               i < j => last.rows[i].updated_at >= last.rows[j].updated_at

\* C13 witness: a list answered with two notes, the first updated after
\* the second although created before it.
C13_Witness ==
    /\ last.method = "LIST"
    /\ Len(last.rows) = 2
    /\ last.rows[1].updated_at > last.rows[2].updated_at
    /\ last.rows[1].created_at < last.rows[2].created_at

\* The position of note id in the rows of a list response, 0 if absent.
Position(rows, id) ==
    IF \E i \in 1..Len(rows) : rows[i].id = id
    THEN CHOOSE i \in 1..Len(rows) : rows[i].id = id
    ELSE 0

\* Note a was created, note b was created later, a was updated after
\* that, and b was not written since.
CreatedCreatedUpdated(a, b) ==
    \E i, j, k \in 1..Len(writes) :
        /\ i < j /\ j < k
        /\ writes[i] = Written("POST", a)
        /\ writes[j] = Written("POST", b)
        /\ writes[k] = Written("PUT", a)
        /\ \A l \in (k + 1)..Len(writes) : writes[l].id # b

\* C14: when note A was created, then note B, then A was updated, each
\* request served after the one before, a list served while both are
\* stored returns A before B.
C14_UpdatedFirst ==
    last.method = "LIST" =>
        \A a, b \in {n.id : n \in notes} :
            CreatedCreatedUpdated(a, b) =>
                /\ Position(last.rows, a) > 0
                /\ Position(last.rows, a) < Position(last.rows, b)

\* C14 witness: a list was served right after create, create, update of
\* the first note.
C14_Witness ==
    /\ last.method = "LIST"
    /\ writes = <<Written("POST", 1), Written("POST", 2), Written("PUT", 1)>>
    /\ Len(last.rows) = 2

(***************************************************************************)
(* Properties of the mail routes, under SpecMail.  mlast is the mail       *)
(* request served last.  Every step of SpecMail but SetEnv ends with the   *)
(* exchange it served in mlast', so a formula on a step that leaves env    *)
(* alone speaks of the environment the request was served in.              *)
(***************************************************************************)
\* x is a send request that carried a recipient, a subject and a content.
IsSendRequest(x) ==
    /\ x.route = "SEND"
    /\ ~EmptyField(x.to)
    /\ ~EmptyField(x.subject)
    /\ ~EmptyField(x.content)

\* Both credentials are present and non-empty in environment e.
CredentialsPresent(e) ==
    ~EmptyField(e.GMAIL_USER) /\ ~EmptyField(e.GMAIL_APP_PASSWORD)

\* C15: a send request with non-empty fields whose recipient does not match
\* local@domain.tld is answered 400 'Invalid email address' without a call of
\* the transport, whether or not the credentials are present.
C15_InvalidAddressRejected ==
    (IsSendRequest(mlast) /\ ~EmailRegex(mlast.to.str)) =>
        /\ mlast.status = 400
        /\ mlast.body.error = <<"Invalid email address">>
        /\ ~mlast.called

\* C16: the status route reports configured exactly when both GMAIL_USER and
\* GMAIL_APP_PASSWORD are present and non-empty in the environment of the
\* call, whether or not a transport exists.
C16_ConfiguredIffBothPresent ==
    [][(mlast'.route = "STATUS" /\ env' = env) =>
           (mlast'.body.configured <=> CredentialsPresent(env))]_vars

\* A status request answered "not configured" while a transport exists.
C16_Witness ==
    /\ mlast.route = "STATUS"
    /\ ~mlast.body.configured
    /\ ~CredentialsPresent(env)
    /\ transporter # 0

\* err is one of the two messages that say the credentials are missing.
NotConfiguredError(err) ==
    \/ err = <<"Email not configured. Please set GMAIL_USER and GMAIL_APP_PASSWORD in .env file.">>
    \/ err = <<"Failed to send email: ",
               "Gmail credentials not configured. Please set GMAIL_USER and GMAIL_APP_PASSWORD in .env file">>

\* C17: a send request that passes the validation of its fields and is
\* served while a credential is absent fails as not configured, and sendMail
\* is not called for it, also when a transport exists from an earlier send.
C17_SendFailsNotConfigured ==
    [][(/\ IsSendRequest(mlast')
        /\ EmailRegex(mlast'.to.str)
        /\ env' = env
        /\ ~CredentialsPresent(env)) =>
           /\ mlast'.status = 500
           /\ NotConfiguredError(mlast'.body.error)
           /\ ~mlast'.called
           /\ pending' = pending]_vars

\* A send request refused as not configured while a transport exists.
C17_Witness ==
    /\ IsSendRequest(mlast)
    /\ EmailRegex(mlast.to.str)
    /\ mlast.status = 500
    /\ ~CredentialsPresent(env)
    /\ transporter # 0

\* C18: createTransport is called once at most, and every sendMail call,
\* settled or not, went to the handle that call returned.
C18_TransportCreatedOnce ==
    /\ created <= 1
    /\ \A i \in 1..Len(pending) : pending[i] = transporter
    /\ mlast.called => mlast.handle = transporter

\* A second send was started while the first awaits the transport.
C18_Witness ==
    /\ Len(pending) = 2
    /\ created = 1
    /\ mlast.called
    /\ mlast.status = 0

\* C19: serving a status request (isConfigured and getUserEmail) leaves
\* transporter, userEmail and the number of transports created unchanged,
\* and a transport comes to exist only in a step that serves a send request
\* with both credentials present.
C19_StatusFrame ==
    [][/\ mlast'.route = "STATUS" =>
              /\ transporter' = transporter
              /\ userEmail' = userEmail
              /\ created' = created
       /\ (transporter = 0 /\ transporter' # 0) =>
              /\ IsSendRequest(mlast')
              /\ mlast'.called
              /\ CredentialsPresent(env)]_vars

\* A status request served with both credentials present and no transport.
C19_Witness ==
    /\ mlast.route = "STATUS"
    /\ mlast.body.configured
    /\ mlast.body.email # Null
    /\ transporter = 0

\* C20: the mail handed to sendMail has the request's content as text, and
\* as html the template with the subject between <h2> and </h2> and, in the
\* content's place, the content with <br> for each newline.
C20_MailBodies ==
    (mlast.called /\ mlast.status = 0) =>
        LET c == mlast.content.str
            s == mlast.subject.str
            h == mlast.mail.html
            off == Len(HtmlHead) + Len(s) + Len(HtmlMid)
        IN  /\ mlast.mail.text = mlast.content
            /\ Len(h) = off + Len(c) + Len(HtmlTail)
            /\ h[Len(HtmlHead)] = "<h2>"
            /\ SubSeq(h, Len(HtmlHead) + 1, Len(HtmlHead) + Len(s)) = s
            /\ h[Len(HtmlHead) + Len(s) + 1] = "</h2>"
            /\ \A i \in 1..Len(c) :
                   h[off + i] = IF c[i] = "\n" THEN "<br>" ELSE c[i]

\* A mail of two newlines was handed to the transport.
C20_Witness ==
    /\ mlast.called
    /\ mlast.status = 0
    /\ mlast.content = Str(<<"\n", "\n">>)
    /\ mlast.mail.text = mlast.content

\* C21: when the transport rejects a sendMail call the send route answers 500
\* with the transport's error message and no success; when it resolves, the
\* route answers 200 with success true and the transport's message id.
C21_TransportOutcomeReported ==
    /\ answer.kind = "rejected" =>
           /\ mlast.route = "SEND"
           /\ mlast.status = 500
           /\ ~mlast.body.success
           /\ mlast.body.error = <<"Failed to send email: ", answer.value>>
    /\ answer.kind = "resolved" =>
           /\ mlast.route = "SEND"
           /\ mlast.status = 200
           /\ mlast.body.success
           /\ mlast.body.messageId = answer.value
           /\ mlast.body.error = <<>>

\* The transport rejected a call while another call awaits it.
C21_Witness ==
    /\ answer = Answer("rejected", "Invalid login")
    /\ mlast.status = 500
    /\ pending # <<>>

\* C22: a status response with configured = false carries email = null.
C22_EmailNullUnlessConfigured ==
    (mlast.route = "STATUS" /\ ~mlast.body.configured) =>
        mlast.body.email = Null

(***************************************************************************)
(* Properties of updates in flight together, under SpecRace.               *)
(***************************************************************************)
\* The statement storage ran in a step from flying to flying'.
RanIn(before, after) == CHOOSE st \in before \ after : TRUE

\* C23: an update in flight with a valid body on a stored note is answered
\* 200 with its own title and content, whatever else is in flight, and each
\* stored note that was updated holds the title and the content of the
\* statement storage ran last for it.
C23_LastWriteWins ==
    [][/\ (flying' # flying /\ flying' \subseteq flying) =>
              LET st == RanIn(flying, flying')
              IN  (\E n \in notes : n.id = st.id) =>
                      /\ last'.status = 200
                      /\ last'.note.title = st.title
                      /\ last'.note.content = st.content
                      /\ applied'[st.id].st = st
       /\ \A n \in notes' :
              n.id \in DOMAIN applied' =>
                  /\ n.title = applied'[n.id].st.title
                  /\ n.content = applied'[n.id].st.content]_vars

\* Two updates of one note with different fields were in flight together and
\* storage has run both.
C23_Witness ==
    \E id \in DOMAIN applied :
        /\ applied[id].overlapped
        /\ last.status = 200
        /\ last.id = id
        /\ flying = {}
        /\ \E n \in notes : n.id = id /\ n.title = applied[id].st.title

Clicked(handler) ==
    /\ clicks' = clicks + 1
    /\ cev'.handler = handler
    /\ cev'.alert = ""

\* handler resumed with a response of one of the statuses.
Answered(handler, statuses) ==
    /\ clicks' = clicks
    /\ cev'.handler = handler
    /\ cev'.status \in statuses

\* An id is bound: currentNoteId is neither null nor undefined.
Bound(c) == c.currentNoteId \in IdInputs

\* C25: a save with a valid draft issues a POST if and only if no id is
\* bound and a PUT to the bound id otherwise; when the server answers
\* success the editor is shown with currentNoteId the id of the returned
\* note, and loadNotes() is under way.
C25_SaveBindsReturnedNote ==
    [][/\ Clicked("saveNote") =>
              \E t \in tasks' \ tasks :
                  /\ tasks' = tasks \cup {t}
                  /\ t.fn = "saveNote"
                  /\ t.method = "POST" <=> ~Bound(client)
                  /\ t.method # "POST" =>
                         (t.method = "PUT" /\ t.id = client.currentNoteId)
       /\ Answered("saveNote", {200, 201}) =>
              /\ client'.editor
              /\ \E n \in notes' \ notes : client'.currentNoteId = n.id
              /\ \E t \in tasks' \ tasks :
                     t.fn = "loadNotes" /\ t.after = "saveNote"]_vars

\* C26: a click on delete issues a DELETE, of the bound note, only when an
\* id is bound and the user has confirmed; with no bound id or a declined
\* confirmation it issues no request and changes nothing; when the server
\* has answered success, currentNoteId is null and loadNotes() is under
\* way, and when deleteNote() has run to its end the editor is hidden and
\* no id is bound.
C26_DeleteEndsEmpty ==
    [][/\ Clicked("deleteNote") =>
              IF Bound(client) /\ cev'.confirm = "ok"
              THEN \E t \in tasks' \ tasks :
                       /\ tasks' = tasks \cup {t}
                       /\ t.method = "DELETE"
                       /\ t.id = client.currentNoteId
              ELSE /\ tasks' = tasks
                   /\ client' = client
                   /\ notes' = notes
       /\ Answered("deleteNote", {200}) =>
              /\ ~Bound(client')
              /\ \E t \in tasks' \ tasks :
                     t.fn = "loadNotes" /\ t.after = "deleteNote"
       /\ (/\ Answered("loadNotes", {200})
           /\ \E t \in tasks \ tasks' : t.after = "deleteNote") =>
              /\ ~client'.editor
              /\ ~Bound(client')]_vars

\* C27: a click on cancel hides the editor and leaves no id bound, issues
\* no request, and leaves the table and the list of the page as they were.
C27_CancelFrame ==
    [][Clicked("cancelEdit") =>
           /\ ~client'.editor
           /\ client'.currentNoteId = NoId
           /\ tasks' = tasks
           /\ notes' = notes
           /\ client'.notes = client.notes]_vars

\* Cancel was clicked on a loaded note with typed edits, over a table and
\* a list that hold notes.
C27_Witness ==
    /\ cev.handler = "cancelEdit"
    /\ ~client.editor
    /\ client.noteTitle = <<" ", "a">>
    /\ notes # {}
    /\ client.notes # <<>>

\* C28: the modal goes from closed to open only in a step that starts with
\* a title and a content that are not empty once trimmed; a click on the
\* email button with one of them empty leaves the modal as it was, and its
\* subject and preview too.
C28_ModalOpensOnDraft ==
    [][/\ (~client.modal /\ client'.modal) =>
              /\ Trim(client.noteTitle) # <<>>
              /\ Trim(client.noteContent) # <<>>
       /\ (/\ clicks' = clicks + 1
           /\ cev'.handler = "openEmailModal"
           /\ Trim(client.noteTitle) = <<>> \/ Trim(client.noteContent) = <<>>) =>
              /\ client'.modal = client.modal
              /\ client'.emailSubject = client.emailSubject
              /\ client'.emailPreview = client.emailPreview]_vars

\* The email button was clicked over a title of one space: the modal is
\* closed.
C28_Witness ==
    /\ cev.handler = "openEmailModal"
    /\ client.noteTitle = <<" ">>
    /\ client.noteContent # <<>>
    /\ ~client.modal

\* The sends of the page that await their response.
Sends(ts) == {t \in ts : t.fn = "sendEmailHandler"}

\* C29: while a send of the page awaits its response the send button is
\* disabled, and no two sends do; the step in which the send is answered,
\* or fails, enables the button; it closes the modal if the answer is a
\* success and leaves the modal as it is otherwise.
C29_SendDisablesButton ==
    [][/\ Sends(tasks') # {} => client'.sendDisabled
       /\ Cardinality(Sends(tasks')) <= 1
       /\ Sends(tasks) \ Sends(tasks') # {} =>
              /\ ~client'.sendDisabled
              /\ IF cev'.status \in 200..299
                 THEN ~client'.modal
                 ELSE client'.modal = client.modal]_vars

\* A send was answered 500: the modal is open and the button enabled.
C29_Witness ==
    /\ cev.handler = "sendEmailHandler"
    /\ cev.status = 500
    /\ client.modal
    /\ ~client.sendDisabled

\* C30: whenever a handler of the page resumes with a response of status
\* 400, 404 or 500, it shows an alert.
C30_FailureAlerted ==
    [][(clicks' = clicks /\ cev'.status \in {400, 404, 500}) =>
           cev'.alert # ""]_vars

\* The creates of saveNote() that await their response.
Creates(ts) == {t \in ts : t.fn = "saveNote" /\ t.method = "POST"}

\* C32: with the editor shown, no id bound, a valid draft and a create of
\* saveNote() under way, save takes another click (as far as the bounds on
\* clicks and fetches leave room), and that click issues a second POST with
\* the same title and content; each POST answered 201 has added a row with
\* an id no row had, whatever rows the table held.
C32_DoubleCreate ==
    [][/\ (/\ client.editor
           /\ ~Bound(client)
           /\ Trim(client.noteTitle) # <<>>
           /\ Trim(client.noteContent) # <<>>
           /\ Creates(tasks) # {}
           /\ clicks < MaxClicks
           /\ Cardinality(tasks) < MaxTasks) => ENABLED ClickSave
       /\ (Clicked("saveNote") /\ ~Bound(client) /\ tasks' # tasks) =>
              \E t \in Creates(tasks') \ tasks :
                  /\ t.title = Str(Trim(client.noteTitle))
                  /\ t.content = Str(Trim(client.noteContent))
                  /\ Creates(tasks') = Creates(tasks) \cup {t}
       /\ Answered("saveNote", {201}) =>
              \E t \in Creates(tasks) \ tasks', row \in notes' \ notes :
                  /\ notes' = notes \cup {row}
                  /\ row.id \notin {n.id : n \in notes}
                  /\ row.title = t.title
                  /\ row.content = t.content]_vars

\* The save of the third click, a second click on save after "new note",
\* was answered 201: the table holds two notes with one title and content.
C32_Witness ==
    /\ cev.handler = "saveNote"
    /\ cev.status = 201
    /\ cev.n = 3
    /\ \E a, b \in notes :
           /\ a.id # b.id
           /\ a.title = b.title
           /\ a.content = b.content

\* C33: whenever the modal is open the editor is shown.
C33_ModalOverEditor == client.modal => client.editor

\* C36: while cancel is the user's last click, the editor stays hidden and
\* no id is bound, whatever response arrives.
C36_CancelHolds ==
    [][(clicks' = clicks /\ cev.click = "cancelEdit") =>
           /\ ~client'.editor
           /\ ~Bound(client')]_vars

\* C37: when the answer to an earlier click on a list entry arrives right
\* after the answer to a later click on another entry, and no answer to
\* such a click is awaited any more, the editor stays bound to the note of
\* the later click and keeps its title and content.
C37_LaterSelectionWins ==
    [][(/\ cev.handler = "loadNote"
        /\ cev.status = 200
        /\ Answered("loadNote", {200})
        /\ cev'.n < cev.n
        /\ \A t \in tasks' : t.fn # "loadNote"
        /\ \E t \in tasks \ tasks' : t.id # client.currentNoteId) =>
           /\ client'.currentNoteId = client.currentNoteId
           /\ client'.noteTitle = client.noteTitle
           /\ client'.noteContent = client.noteContent]_vars

\* C38: a click on save that is the first click after "new note", and that
\* issues a request, issues a POST.
C38_SaveAfterNewCreates ==
    [][(/\ Clicked("saveNote")
        /\ cev.click = "createNewNote"
        /\ tasks' # tasks) =>
           \E t \in tasks' \ tasks : t.method = "POST"]_vars

\* C39: the content of a send the page issues is the text the preview of
\* the modal shows, which is the text it was opened with.
C39_SendsPreviewedContent ==
    [][(Clicked("sendEmailHandler") /\ tasks' # tasks) =>
           \E t \in tasks' \ tasks : t.content = Str(client.emailPreview)]_vars

(***************************************************************************)
(* Properties of the page under SpecNet, where the page is the only one    *)
(* to send requests and a response may overtake another.                   *)
(***************************************************************************)
\* The lists the list route may return now, as the page keeps them.
ServerLists == {Ids(rows) : rows \in SelectNotes(notes)}

\* C31: when the table is no longer the one the page was loaded over (a
\* save or delete of the page has succeeded) and no fetch of the page is
\* under way, the list of the page is the list the server returns.
C31_ListReconciled ==
    (tasks = {} /\ notes \notin {{}, TwoNotes.table}) =>
        client.notes \in ServerLists

\* C34: when saveNote() resumes with a 400, 404 or 500 while an id is
\* bound, currentNoteId stays as it is.
C34_FailedSaveKeepsId ==
    [][(Answered("saveNote", {400, 404, 500}) /\ Bound(client)) =>
           client'.currentNoteId = client.currentNoteId]_vars

\* C35: when deleteNote() resumes with a 404 or 500 while the editor is
\* shown with an id bound, currentNoteId stays as it is and the editor
\* stays shown.
C35_FailedDeleteKeepsNote ==
    [][(Answered("deleteNote", {404, 500}) /\ Bound(client) /\ client.editor) =>
           /\ client'.currentNoteId = client.currentNoteId
           /\ client'.editor]_vars

====
